---------------------------- MODULE Spec2Model ----------------------------
(***************************************************************************)
(* Model of markdown2html.py: the inline formatter parse_formatting and    *)
(* the block state machine parse_markdown.                                 *)
(*                                                                         *)
(* A Python string is modelled as a sequence of one-character strings, so  *)
(* that startswith, rstrip, strip, slicing, indexing and the regular       *)
(* expression substitutions are computed character by character.           *)
(***************************************************************************)
EXTENDS Integers, Sequences, FiniteSets, TLC

(***************************************************************************)
(* Bounds of the model.                                                    *)
(***************************************************************************)
\* Longest input (number of lines) handed to parse_markdown.
MaxLines == 3
\* Longest run of leading '#' characters among the input lines.
MaxHashes == 7
\* Largest number of tokens of a text handed to parse_formatting alone.
MaxTokens == 4

(***************************************************************************)
(* Python string primitives.                                               *)
(***************************************************************************)
NL == "\n"

\* str.rstrip()/str.strip() remove whitespace; the inputs use ' ' and '\n'.
IsSpace(c) == c \in {" ", NL, "\t"}

StartsWith(s, p) == Len(s) >= Len(p) /\ SubSeq(s, 1, Len(p)) = p

RECURSIVE rstrip(_)
rstrip(s) ==
    IF s # <<>> /\ IsSpace(s[Len(s)]) THEN rstrip(SubSeq(s, 1, Len(s) - 1)) ELSE s

RECURSIVE lstrip(_)
lstrip(s) ==
    IF s # <<>> /\ IsSpace(s[1]) THEN lstrip(Tail(s)) ELSE s

strip(s) == lstrip(rstrip(s))

\* s[k:] with a 0-based Python index k.
SliceFrom(s, k) == SubSeq(s, k + 1, Len(s))

\* str.replace(c, '') for a single character c.
RECURSIVE RemoveChar(_, _)
RemoveChar(s, c) ==
    IF s = <<>> THEN <<>>
    ELSE (IF s[1] = c THEN <<>> ELSE <<s[1]>>) \o RemoveChar(Tail(s), c)

(***************************************************************************)
(* hashlib.md5(s.encode()).hexdigest(): RFC 1321 on 32-bit words, each     *)
(* word kept as a pair <<high 16 bits, low 16 bits>>.                      *)
(***************************************************************************)
Ascii ==
    <<" ", "!", "QUOTE", "#", "$", "%", "&", "'", "(", ")", "*", "+", ",", "-", ".", "/",
      "0", "1", "2", "3", "4", "5", "6", "7", "8", "9", ":", ";", "<", "=", ">", "?",
      "@", "A", "B", "C", "D", "E", "F", "G", "H", "I", "J", "K", "L", "M", "N", "O",
      "P", "Q", "R", "S", "T", "U", "V", "W", "X", "Y", "Z", "[", "BACKSLASH", "]", "^", "_",
      "BACKTICK", "a", "b", "c", "d", "e", "f", "g", "h", "i", "j", "k", "l", "m", "n", "o",
      "p", "q", "r", "s", "t", "u", "v", "w", "x", "y", "z", "{", "|", "}", "~">>

\* s.encode(): the byte of an ASCII character (the three entries of Ascii that
\* are not single characters keep the table aligned with the code points).
Ord(c) ==
    IF c = NL THEN 10
    ELSE IF c = "\t" THEN 9
    ELSE 31 + (CHOOSE i \in 1..Len(Ascii) : Ascii[i] = c)

encode(s) == [i \in 1..Len(s) |-> Ord(s[i])]

HexDigits ==
    <<"0", "1", "2", "3", "4", "5", "6", "7", "8", "9", "a", "b", "c", "d", "e", "f">>

Pow2(n) == 2 ^ n

\* A bitwise operation on two n-bit numbers, n a power of two, by halves.
RECURSIVE BitOp(_, _, _, _)
BitOp(op, a, b, n) ==
    IF n = 1
    THEN CASE op = "and" -> a * b
           [] op = "or"  -> IF a + b > 0 THEN 1 ELSE 0
           [] op = "xor" -> (a + b) % 2
    ELSE LET h == n \div 2
             m == Pow2(h)
         IN  BitOp(op, a % m, b % m, h) + m * BitOp(op, a \div m, b \div m, h)

\* The operation on every pair of 4-bit numbers, computed once.
AndTable == [a \in 0..15 |-> [b \in 0..15 |-> BitOp("and", a, b, 4)]]
OrTable  == [a \in 0..15 |-> [b \in 0..15 |-> BitOp("or", a, b, 4)]]
XorTable == [a \in 0..15 |-> [b \in 0..15 |-> BitOp("xor", a, b, 4)]]

\* The operation of table on two 16-bit numbers, four bits at a time.
Op16(table, a, b) ==
    table[a % 16][b % 16]
        + 16 * table[(a \div 16) % 16][(b \div 16) % 16]
        + 256 * table[(a \div 256) % 16][(b \div 256) % 16]
        + 4096 * table[a \div 4096][b \div 4096]

WAnd(x, y) == <<Op16(AndTable, x[1], y[1]), Op16(AndTable, x[2], y[2])>>
WOr(x, y)  == <<Op16(OrTable, x[1], y[1]), Op16(OrTable, x[2], y[2])>>
WXor(x, y) == <<Op16(XorTable, x[1], y[1]), Op16(XorTable, x[2], y[2])>>
WNot(x)    == <<65535 - x[1], 65535 - x[2]>>

\* Addition modulo 2^32.
WAdd(x, y) ==
    LET lo == x[2] + y[2]
        hi == x[1] + y[1] + (lo \div 65536)
    IN  <<hi % 65536, lo % 65536>>

\* Rotation to the left by s bits, 0 <= s < 32.
RotL(x, s) ==
    LET y == IF s >= 16 THEN <<x[2], x[1]>> ELSE x
        t == s % 16
        m == Pow2(16 - t)
    IN  <<(y[1] % m) * Pow2(t) + (y[2] \div m), (y[2] % m) * Pow2(t) + (y[1] \div m)>>

Md5K ==
    <<<<55146, 42104>>, <<59591, 46934>>, <<9248, 28891>>, <<49597, 52974>>,
      <<62844, 4015>>, <<18311, 50730>>, <<43056, 17939>>, <<64838, 38145>>,
      <<27008, 39128>>, <<35652, 63407>>, <<65535, 23473>>, <<35164, 55230>>,
      <<27536, 4386>>, <<64920, 29075>>, <<42617, 17294>>, <<18868, 2081>>,
      <<63006, 9570>>, <<49216, 45888>>, <<9822, 23121>>, <<59830, 51114>>,
      <<54831, 4189>>, <<580, 5203>>, <<55457, 59009>>, <<59347, 64456>>,
      <<8673, 52710>>, <<49975, 2006>>, <<62677, 3463>>, <<17754, 5357>>,
      <<43491, 59653>>, <<64751, 41976>>, <<26479, 729>>, <<36138, 19594>>,
      <<65530, 14658>>, <<34673, 63105>>, <<28061, 24866>>, <<64997, 14348>>,
      <<42174, 59972>>, <<19422, 53161>>, <<63163, 19296>>, <<48831, 48240>>,
      <<10395, 32454>>, <<60065, 10234>>, <<54511, 12421>>, <<1160, 7429>>,
      <<55764, 53305>>, <<59099, 39397>>, <<8098, 31992>>, <<50348, 22117>>,
      <<62505, 8772>>, <<17194, 65431>>, <<43924, 9127>>, <<64659, 41017>>,
      <<25947, 22979>>, <<36620, 52370>>, <<65519, 62589>>, <<34180, 24017>>,
      <<28584, 32335>>, <<65068, 59104>>, <<41729, 17172>>, <<19976, 4513>>,
      <<63315, 32386>>, <<48442, 62005>>, <<10967, 53947>>, <<60294, 54161>>>>

Md5S ==
    <<7, 12, 17, 22, 7, 12, 17, 22, 7, 12, 17, 22, 7, 12, 17, 22,
      5, 9, 14, 20, 5, 9, 14, 20, 5, 9, 14, 20, 5, 9, 14, 20,
      4, 11, 16, 23, 4, 11, 16, 23, 4, 11, 16, 23, 4, 11, 16, 23,
      6, 10, 15, 21, 6, 10, 15, 21, 6, 10, 15, 21, 6, 10, 15, 21>>

Md5Init == <<<<26437, 8961>>, <<61389, 43913>>, <<39098, 56574>>, <<4146, 21622>>>>

\* The k low bytes of n, least significant first.
RECURSIVE LittleEndian(_, _)
LittleEndian(n, k) ==
    IF k = 0 THEN <<>> ELSE <<n % 256>> \o LittleEndian(n \div 256, k - 1)

\* The message followed by 0x80, zeros up to 56 mod 64, and the length in
\* bits as eight little-endian bytes.
Md5Pad(bytes) ==
    LET n     == Len(bytes)
        zeros == (119 - (n % 64)) % 64
        bits  == 8 * n
    IN  bytes \o <<128>> \o [i \in 1..zeros |-> 0]
              \o LittleEndian(bits, 8)

\* The 16 little-endian words of the block that starts after `off` bytes.
Md5Block(padded, off) ==
    [g \in 1..16 |->
        LET b == off + 4 * (g - 1)
        IN  <<padded[b + 3] + 256 * padded[b + 4], padded[b + 1] + 256 * padded[b + 2]>>]

Md5Step(st, M, i) ==
    LET A == st[1]
        B == st[2]
        C == st[3]
        D == st[4]
        F == CASE i < 16 -> WOr(WAnd(B, C), WAnd(WNot(B), D))
               [] i >= 16 /\ i < 32 -> WOr(WAnd(D, B), WAnd(WNot(D), C))
               [] i >= 32 /\ i < 48 -> WXor(B, WXor(C, D))
               [] i >= 48 -> WXor(C, WOr(B, WNot(D)))
        g == CASE i < 16 -> i
               [] i >= 16 /\ i < 32 -> (5 * i + 1) % 16
               [] i >= 32 /\ i < 48 -> (3 * i + 5) % 16
               [] i >= 48 -> (7 * i) % 16
        T == WAdd(WAdd(F, A), WAdd(Md5K[i + 1], M[g + 1]))
    IN  <<D, WAdd(B, RotL(T, Md5S[i + 1])), B, C>>

\* Steps lo..hi of one block, by halves (the test on `left` makes the first
\* half's value be computed before the second half starts).
RECURSIVE Md5Rounds(_, _, _, _)
Md5Rounds(st, M, lo, hi) ==
    IF lo = hi THEN Md5Step(st, M, lo)
    ELSE LET mid  == (lo + hi) \div 2
             left == Md5Rounds(st, M, lo, mid)
         IN  CASE Len(left) = 4 -> Md5Rounds(left, M, mid + 1, hi)

\* The state after a block: the state before plus the result of its steps.
Md5Sum(st, r) ==
    <<WAdd(st[1], r[1]), WAdd(st[2], r[2]), WAdd(st[3], r[3]), WAdd(st[4], r[4])>>

RECURSIVE Md5Blocks(_, _, _)
Md5Blocks(st, padded, off) ==
    IF off >= Len(padded) THEN st
    ELSE Md5Blocks(Md5Sum(st, Md5Rounds(st, Md5Block(padded, off), 0, 63)),
                   padded, off + 64)

HexByte(b) == <<HexDigits[(b \div 16) + 1], HexDigits[(b % 16) + 1]>>

\* The four bytes of a word, least significant first, in hexadecimal.
HexWord(w) ==
    HexByte(w[2] % 256) \o HexByte(w[2] \div 256)
        \o HexByte(w[1] % 256) \o HexByte(w[1] \div 256)

HexState(st) ==
    HexWord(st[1]) \o HexWord(st[2]) \o HexWord(st[3]) \o HexWord(st[4])

hexdigest(s) == HexState(Md5Blocks(Md5Init, Md5Pad(encode(s)), 0))

(***************************************************************************)
(* parse_formatting: four re.sub calls, one after the other.               *)
(***************************************************************************)
\* The two-character delimiters of the four patterns.
Open(rule) ==
    CASE rule = "bold"   -> <<"*", "*">>
      [] rule = "italic" -> <<"_", "_">>
      [] rule = "strip"  -> <<"(", "(">>
      [] rule = "md5"    -> <<"[", "[">>

Close(rule) ==
    CASE rule = "bold"   -> <<"*", "*">>
      [] rule = "italic" -> <<"_", "_">>
      [] rule = "strip"  -> <<")", ")">>
      [] rule = "md5"    -> <<"]", "]">>

\* The delimiter d stands at position p of text.
HasAt(text, p, d) ==
    p >= 1 /\ p + 1 <= Len(text) /\ text[p] = d[1] /\ text[p + 1] = d[2]

\* MatchEnd with a greedy group, open(.+)close: the last closing delimiter.
MatchEnd_Greedy(text, p, rule) ==
    LET ends == {q \in (p + 3)..(Len(text) - 1) :
                    /\ HasAt(text, q, Close(rule))
                    /\ \A k \in (p + 2)..(q - 1) : text[k] # NL}
    IN  IF HasAt(text, p, Open(rule)) /\ ends # {}
        THEN CHOOSE q \in ends : \A r \in ends : q >= r
        ELSE 0

\* MatchEnd with a group that may be empty, open(.*?)close.
MatchEnd_EmptyGroup(text, p, rule) ==
    LET ends == {q \in (p + 2)..(Len(text) - 1) :
                    /\ HasAt(text, q, Close(rule))
                    /\ \A k \in (p + 2)..(q - 1) : text[k] # NL}
    IN  IF HasAt(text, p, Open(rule)) /\ ends # {}
        THEN CHOOSE q \in ends : \A r \in ends : q <= r
        ELSE 0

\* open(.+?)close tried at position p: the position of the closing delimiter
\* of the shortest match, or 0.  The group holds at least one character and
\* '.' matches no newline.
MatchEnd(text, p, rule) ==
    LET ends == {q \in (p + 3)..(Len(text) - 1) :
                    /\ HasAt(text, q, Close(rule))
                    /\ \A k \in (p + 2)..(q - 1) : text[k] # NL}
    IN  IF HasAt(text, p, Open(rule)) /\ ends # {}
        THEN CHOOSE q \in ends : \A r \in ends : q <= r
        ELSE 0

\* remove_c without the second replace, the one of 'C'.
remove_c_LowerOnly(group) == RemoveChar(group, "c")

remove_c(group) == RemoveChar(RemoveChar(group, "c"), "C")

md5_hash(group) == hexdigest(group)

\* What a match is replaced by, given its group 1.
Replacement(rule, group) ==
    CASE rule = "bold"   -> <<"<", "b", ">">> \o group \o <<"<", "/", "b", ">">>
      [] rule = "italic" -> <<"<", "e", "m", ">">> \o group \o <<"<", "/", "e", "m", ">">>
      [] rule = "strip"  -> remove_c(group)
      [] rule = "md5"    -> md5_hash(group)

\* re.sub from position p on: matches are found left to right, do not overlap,
\* and the replacement is not scanned again.
RECURSIVE re_sub(_, _, _)
re_sub(rule, text, p) ==
    IF p > Len(text) THEN <<>>
    ELSE LET q == MatchEnd(text, p, rule)
         IN  IF q = 0
             THEN <<text[p]>> \o re_sub(rule, text, p + 1)
             ELSE Replacement(rule, SubSeq(text, p + 2, q - 1))
                      \o re_sub(rule, text, q + 2)

\* parse_formatting with the hash rule run first instead of last.
parse_formatting_HashFirst(text) ==
    LET t1 == re_sub("md5", text, 1)
        t2 == re_sub("bold", t1, 1)
        t3 == re_sub("italic", t2, 1)
    IN  re_sub("strip", t3, 1)

parse_formatting(text) ==
    LET t1 == re_sub("bold", text, 1)
        t2 == re_sub("italic", t1, 1)
        t3 == re_sub("strip", t2, 1)
    IN  re_sub("md5", t3, 1)

(***************************************************************************)
(* parse_markdown: the loop over the input lines.                          *)
(***************************************************************************)
VARIABLES
    lines,            \* the input lines consumed so far, as given (not trimmed)
    html_lines,       \* the output list
    in_ul,            \* an unordered list is open
    in_ol,            \* an ordered list is open
    paragraph_lines,  \* the paragraph buffer
    pc,               \* "loop", "done" (returned), "error" (raised), "idle"
    fmt_in,           \* the argument of a call of parse_formatting on its own
    fmt_out,          \* its result
    fmt_pc,           \* "call", "done", "idle"
    argc,             \* len(sys.argv) of a run of main
    input_kind,       \* what argv[1] names: "file", "directory", "missing"
    input_readable,   \* open() and readlines() of the input succeed
    output_ok,        \* open() of the output for writing succeeds
    out_file,         \* the output file: whether it exists, and its lines
    stderr,           \* the messages written to the error stream
    exit_status,      \* the exit status, -1 while the run goes on
    input_read,       \* the input file has been read
    main_pc           \* "args", "isfile", "core", "exit", "idle"

main_vars == <<argc, input_kind, input_readable, output_ok, out_file, stderr,
               exit_status, input_read, main_pc>>

vars == <<lines, html_lines, in_ul, in_ol, paragraph_lines, pc, fmt_in, fmt_out, fmt_pc,
          main_vars>>

block_vars == <<lines, html_lines, in_ul, in_ol, paragraph_lines, pc>>

fmt_vars == <<fmt_in, fmt_out, fmt_pc>>

\* The largest heading level, the 6 of `1 <= i <= 6`.
MaxHeadingLevel == 6

\* The output lines that are pure structure.
P_OPEN   == <<"<", "p", ">">>
P_CLOSE  == <<"<", "/", "p", ">">>
UL_OPEN  == <<"<", "u", "l", ">">>
UL_CLOSE == <<"<", "/", "u", "l", ">">>
OL_OPEN  == <<"<", "o", "l", ">">>
OL_CLOSE == <<"<", "/", "o", "l", ">">>
BR       == <<"<", "b", "r", "/", ">">>

\* str(i) of the f-strings, for one decimal digit.
str(i) == HexDigits[i + 1]

\* f"<h{i}>{content}</h{i}>"
HeadingLine(i, content) ==
    <<"<", "h", str(i), ">">> \o content \o <<"<", "/", "h", str(i), ">">>

\* f"<li>{content}</li>"
ItemLine(content) ==
    <<"<", "l", "i", ">">> \o content \o <<"<", "/", "l", "i", ">">>

\* flush_paragraph without the <br/> of the lines after the first.
flush_paragraph_NoBr(buf) ==
    IF buf # <<>>
    THEN <<P_OPEN>> \o [i \in 1..Len(buf) |-> parse_formatting(buf[i])] \o <<P_CLOSE>>
    ELSE <<>>

\* What flush_paragraph appends to html_lines for the buffer buf (it also
\* clears the buffer).
flush_paragraph(buf) ==
    IF buf # <<>>
    THEN <<P_OPEN>>
            \o [i \in 1..Len(buf) |->
                    (IF i = 1 THEN <<>> ELSE BR) \o parse_formatting(buf[i])]
            \o <<P_CLOSE>>
    ELSE <<>>

\* The closing tags appended for the lists that are open.
CloseLists(ul, ol) ==
    (IF ul THEN <<UL_CLOSE>> ELSE <<>>) \o (IF ol THEN <<OL_CLOSE>> ELSE <<>>)

\* The value of i after `while i < len(line) and line[i] == '#': i += 1`,
\* started at k.
RECURSIVE HashRun(_, _)
HashRun(line, k) ==
    IF k < Len(line) /\ line[k + 1] = "#" THEN HashRun(line, k + 1) ELSE k

\* Classify with `1 <= i` alone as the test on the number of '#'.
Classify_NoUpperBound(line) ==
    LET i == HashRun(line, 0)
    IN  CASE strip(line) = <<>> -> "blank"
          [] strip(line) # <<>> /\ StartsWith(line, <<"#">>) ->
                IF i >= Len(line) THEN "index_error"
                ELSE IF line[i + 1] = " " THEN "heading"
                ELSE "hash_text"
          [] StartsWith(line, <<"-", " ">>) -> "ul_item"
          [] StartsWith(line, <<"*", " ">>) -> "ol_item"
          [] OTHER -> "text"

\* The branch of the loop body that a (right-trimmed) line takes.
Classify(line) ==
    LET i == HashRun(line, 0)
    IN  CASE strip(line) = <<>> -> "blank"
          [] strip(line) # <<>> /\ StartsWith(line, <<"#">>) ->
                IF 1 <= i /\ i <= MaxHeadingLevel
                THEN (IF i >= Len(line) THEN "index_error"
                      ELSE IF line[i + 1] = " " THEN "heading"
                      ELSE "hash_text")
                ELSE "hash_text"
          [] StartsWith(line, <<"-", " ">>) -> "ul_item"
          [] StartsWith(line, <<"*", " ">>) -> "ol_item"
          [] OTHER -> "text"

(***************************************************************************)
(* The inputs.                                                             *)
(***************************************************************************)
Hashes(n) == [i \in 1..n |-> "#"]

LineSet ==
    { <<>>, <<" ", NL>> }
    \cup { Hashes(n) \o <<" ", " ", "a", " ", NL>> : n \in 1..MaxHashes }
    \cup { Hashes(1), Hashes(MaxHeadingLevel) \o <<" ">>, Hashes(MaxHashes),
           <<"#", "a">> }
    \cup { <<"-", " ", "a">>, <<"*", " ", "b", NL>>,
           <<"-", " ", "*", "*", "a", "*", "*", " ">>,
           <<"*", " ", " ", "(", "(", "c", ")", ")">>,
           <<"-", " ", NL>>, <<"-", "a">>, <<"a", NL>>,
           <<" ", "_", "_", "b", "_", "_", " ">> }

\* No run of main: parse_markdown or parse_formatting is called directly.
MainIdle ==
    /\ argc = 3
    /\ input_kind = "file"
    /\ input_readable = TRUE
    /\ output_ok = TRUE
    /\ out_file = [exists |-> FALSE, content |-> <<>>]
    /\ stderr = <<>>
    /\ exit_status = -1
    /\ input_read = FALSE
    /\ main_pc = "idle"

Init ==
    /\ lines = <<>>
    /\ html_lines = <<>>
    /\ in_ul = FALSE
    /\ in_ol = FALSE
    /\ paragraph_lines = <<>>
    /\ pc = "loop"
    /\ fmt_in = <<>>
    /\ fmt_out = <<>>
    /\ fmt_pc = "idle"
    /\ MainIdle

\* The loop takes one more line: `line = line.rstrip()` and the branch kind.
Takes(raw, kind) ==
    /\ pc = "loop"
    /\ Len(lines) < MaxLines
    /\ Classify(rstrip(raw)) = kind
    /\ lines' = Append(lines, raw)

\* BlankLine without line 71, the flush of the paragraph.
BlankLine_NoFlush ==
    \E raw \in LineSet :
        /\ Takes(raw, "blank")
        /\ html_lines' = html_lines \o CloseLists(in_ul, in_ol)
        /\ in_ul' = FALSE
        /\ in_ol' = FALSE
        /\ UNCHANGED <<paragraph_lines, pc, fmt_vars, main_vars>>

\* if not line.strip(): flush, close the open lists, continue.
BlankLine ==
    \E raw \in LineSet :
        /\ Takes(raw, "blank")
        /\ html_lines' = html_lines \o flush_paragraph(paragraph_lines)
                             \o CloseLists(in_ul, in_ol)
        /\ paragraph_lines' = <<>>
        /\ in_ul' = FALSE
        /\ in_ol' = FALSE
        /\ UNCHANGED <<pc, fmt_vars, main_vars>>

\* Heading with the heading line emitted before the pending paragraph.
Heading_BeforeFlush ==
    \E raw \in LineSet :
        LET line == rstrip(raw)
            i    == HashRun(line, 0)
        IN  /\ Takes(raw, "heading")
            /\ html_lines' = html_lines
                                 \o <<HeadingLine(i, parse_formatting(strip(SliceFrom(line, i + 1))))>>
                                 \o flush_paragraph(paragraph_lines)
                                 \o CloseLists(in_ul, in_ol)
            /\ paragraph_lines' = <<>>
            /\ in_ul' = FALSE
            /\ in_ol' = FALSE
            /\ UNCHANGED <<pc, fmt_vars, main_vars>>

\* Heading without lines 86-91, the closing of the open lists.
Heading_NoClose ==
    \E raw \in LineSet :
        LET line == rstrip(raw)
            i    == HashRun(line, 0)
        IN  /\ Takes(raw, "heading")
            /\ html_lines' = html_lines \o flush_paragraph(paragraph_lines)
                                 \o <<HeadingLine(i, parse_formatting(strip(SliceFrom(line, i + 1))))>>
            /\ paragraph_lines' = <<>>
            /\ UNCHANGED <<in_ul, in_ol, pc, fmt_vars, main_vars>>

\* if line.startswith('#') with 1 <= i <= 6 and line[i] == ' '.
Heading ==
    \E raw \in LineSet :
        LET line == rstrip(raw)
            i    == HashRun(line, 0)
        IN  /\ Takes(raw, "heading")
            /\ html_lines' = html_lines \o flush_paragraph(paragraph_lines)
                                 \o CloseLists(in_ul, in_ol)
                                 \o <<HeadingLine(i, parse_formatting(strip(SliceFrom(line, i + 1))))>>
            /\ paragraph_lines' = <<>>
            /\ in_ul' = FALSE
            /\ in_ol' = FALSE
            /\ UNCHANGED <<pc, fmt_vars, main_vars>>

\* if line.startswith('#') with 1 <= i <= 6 and i == len(line): line[i]
\* raises IndexError, after flush_paragraph() has run.
HeadingIndexError ==
    \E raw \in LineSet :
        /\ Takes(raw, "index_error")
        /\ html_lines' = html_lines \o flush_paragraph(paragraph_lines)
        /\ paragraph_lines' = <<>>
        /\ pc' = "error"
        /\ UNCHANGED <<in_ul, in_ol, fmt_vars, main_vars>>

\* if line.startswith('#') and the heading test fails: flush_paragraph() has
\* run, no later branch matches, the line is appended to the buffer.
HashText ==
    \E raw \in LineSet :
        /\ Takes(raw, "hash_text")
        /\ html_lines' = html_lines \o flush_paragraph(paragraph_lines)
        /\ paragraph_lines' = <<rstrip(raw)>>
        /\ UNCHANGED <<in_ul, in_ol, pc, fmt_vars, main_vars>>

\* UnorderedItem without line 98: an open ordered list gets no closing tag.
UnorderedItem_NoOlClose ==
    \E raw \in LineSet :
        LET line == rstrip(raw)
        IN  /\ Takes(raw, "ul_item")
            /\ html_lines' = html_lines \o flush_paragraph(paragraph_lines)
                                 \o (IF ~in_ul THEN <<UL_OPEN>> ELSE <<>>)
                                 \o <<ItemLine(parse_formatting(strip(SliceFrom(line, 2))))>>
            /\ paragraph_lines' = <<>>
            /\ in_ol' = FALSE
            /\ in_ul' = TRUE
            /\ UNCHANGED <<pc, fmt_vars, main_vars>>

\* UnorderedItem with the opening tag emitted for every item (no
\* `if not in_ul`).
UnorderedItem_AlwaysOpen ==
    \E raw \in LineSet :
        LET line == rstrip(raw)
        IN  /\ Takes(raw, "ul_item")
            /\ html_lines' = html_lines \o flush_paragraph(paragraph_lines)
                                 \o (IF in_ol THEN <<OL_CLOSE>> ELSE <<>>)
                                 \o <<UL_OPEN>>
                                 \o <<ItemLine(parse_formatting(strip(SliceFrom(line, 2))))>>
            /\ paragraph_lines' = <<>>
            /\ in_ol' = FALSE
            /\ in_ul' = TRUE
            /\ UNCHANGED <<pc, fmt_vars, main_vars>>

\* if line.startswith('- ').
UnorderedItem ==
    \E raw \in LineSet :
        LET line == rstrip(raw)
        IN  /\ Takes(raw, "ul_item")
            /\ html_lines' = html_lines \o flush_paragraph(paragraph_lines)
                                 \o (IF in_ol THEN <<OL_CLOSE>> ELSE <<>>)
                                 \o (IF ~in_ul THEN <<UL_OPEN>> ELSE <<>>)
                                 \o <<ItemLine(parse_formatting(strip(SliceFrom(line, 2))))>>
            /\ paragraph_lines' = <<>>
            /\ in_ol' = FALSE
            /\ in_ul' = TRUE
            /\ UNCHANGED <<pc, fmt_vars, main_vars>>

\* OrderedItem without lines 108-110: an open unordered list stays open.
OrderedItem_KeepsUl ==
    \E raw \in LineSet :
        LET line == rstrip(raw)
        IN  /\ Takes(raw, "ol_item")
            /\ html_lines' = html_lines \o flush_paragraph(paragraph_lines)
                                 \o (IF ~in_ol THEN <<OL_OPEN>> ELSE <<>>)
                                 \o <<ItemLine(parse_formatting(strip(SliceFrom(line, 2))))>>
            /\ paragraph_lines' = <<>>
            /\ in_ol' = TRUE
            /\ UNCHANGED <<in_ul, pc, fmt_vars, main_vars>>

\* OrderedItem with the opening tag emitted before the other list is closed.
OrderedItem_OpenFirst ==
    \E raw \in LineSet :
        LET line == rstrip(raw)
        IN  /\ Takes(raw, "ol_item")
            /\ html_lines' = html_lines \o flush_paragraph(paragraph_lines)
                                 \o (IF ~in_ol THEN <<OL_OPEN>> ELSE <<>>)
                                 \o (IF in_ul THEN <<UL_CLOSE>> ELSE <<>>)
                                 \o <<ItemLine(parse_formatting(strip(SliceFrom(line, 2))))>>
            /\ paragraph_lines' = <<>>
            /\ in_ul' = FALSE
            /\ in_ol' = TRUE
            /\ UNCHANGED <<pc, fmt_vars, main_vars>>

\* if line.startswith('* ').
OrderedItem ==
    \E raw \in LineSet :
        LET line == rstrip(raw)
        IN  /\ Takes(raw, "ol_item")
            /\ html_lines' = html_lines \o flush_paragraph(paragraph_lines)
                                 \o (IF in_ul THEN <<UL_CLOSE>> ELSE <<>>)
                                 \o (IF ~in_ol THEN <<OL_OPEN>> ELSE <<>>)
                                 \o <<ItemLine(parse_formatting(strip(SliceFrom(line, 2))))>>
            /\ paragraph_lines' = <<>>
            /\ in_ul' = FALSE
            /\ in_ol' = TRUE
            /\ UNCHANGED <<pc, fmt_vars, main_vars>>

\* paragraph_lines.append(line)
ParagraphText ==
    \E raw \in LineSet :
        /\ Takes(raw, "text")
        /\ paragraph_lines' = Append(paragraph_lines, rstrip(raw))
        /\ UNCHANGED <<html_lines, in_ul, in_ol, pc, fmt_vars, main_vars>>

\* EndOfInput without the closing tags of lines 121-124.
EndOfInput_NoClose ==
    /\ pc = "loop"
    /\ html_lines' = html_lines \o flush_paragraph(paragraph_lines)
    /\ paragraph_lines' = <<>>
    /\ pc' = "done"
    /\ UNCHANGED <<lines, in_ul, in_ol, fmt_vars, main_vars>>

\* After the loop: flush, the closing tags of the open lists, return.
EndOfInput ==
    /\ pc = "loop"
    /\ html_lines' = html_lines \o flush_paragraph(paragraph_lines)
                         \o CloseLists(in_ul, in_ol)
    /\ paragraph_lines' = <<>>
    /\ pc' = "done"
    /\ UNCHANGED <<lines, in_ul, in_ol, fmt_vars, main_vars>>

Next ==
    \/ BlankLine
    \/ Heading
    \/ HeadingIndexError
    \/ HashText
    \/ UnorderedItem
    \/ OrderedItem
    \/ ParagraphText
    \/ EndOfInput

Spec == Init /\ [][Next]_vars

(***************************************************************************)
(* parse_formatting called on its own, on a bounded set of texts.          *)
(***************************************************************************)
FmtTokens ==
    { <<"*", "*">>, <<"_", "_">>, <<"(", "(">>, <<")", ")">>, <<"[", "[">>,
      <<"]", "]">>, <<"c">>, <<"C">>, <<"a">> }

\* The texts made of at most n tokens.
RECURSIVE TokenTexts(_)
TokenTexts(n) ==
    IF n = 0 THEN { <<>> }
    ELSE TokenTexts(n - 1)
            \cup { t \o tok : t \in TokenTexts(n - 1), tok \in FmtTokens }

\* The texts of the documented examples, and the nestings of two rules.
FmtExamples ==
    { <<"*", "*", "b", "o", "l", "d", "*", "*">>,
      <<"_", "_", "i", "t", "_", "_">>,
      <<"(", "(", "c", "o", "f", "f", "e", "e", ")", ")">>,
      <<"[", "[", "a", "b", "c", "]", "]">>,
      <<"[", "[", "(", "(", "c", ")", ")", "a", "b", "c", "]", "]">>,
      <<"[", "[", "*", "*", "a", "*", "*", "]", "]">>,
      <<"[", "[", "_", "_", "a", "_", "_", "]", "]">>,
      <<"(", "(", "[", "[", "a", "]", "]", ")", ")">>,
      <<"(", "(", "[", "[", "c", "]", "]", ")", ")">>,
      <<"(", "(", "*", "*", "c", "*", "*", ")", ")">>,
      <<"[", "[", "a", "]", "]", " ", "[", "[", "b", "]", "]">>,
      <<"(", "(", "c", "a", "b", ")", ")", " ", "(", "(", "C", "c", ")", ")", "x">>,
      <<"*", "*", "a", "*", "*", " ", "*", "*", "b", "*", "*">>,
      <<"_", "_", "a", "_", "_", " ", "_", "_", "b", "_", "_">> }

FmtInputs == TokenTexts(MaxTokens) \cup FmtExamples

InitFmt ==
    /\ lines = <<>>
    /\ html_lines = <<>>
    /\ in_ul = FALSE
    /\ in_ol = FALSE
    /\ paragraph_lines = <<>>
    /\ pc = "idle"
    /\ fmt_in \in FmtInputs
    /\ fmt_out = <<>>
    /\ fmt_pc = "call"
    /\ MainIdle

\* The call: text in, text out.
Format ==
    /\ fmt_pc = "call"
    /\ fmt_out' = parse_formatting(fmt_in)
    /\ fmt_pc' = "done"
    /\ UNCHANGED <<block_vars, fmt_in, main_vars>>

NextFmt == Format

SpecFmt == InitFmt /\ [][NextFmt]_vars

(***************************************************************************)
(* main: the argument check, the check of the input path, the read, the    *)
(* call of parse_markdown, the write.  The lines of the input file are the *)
(* lines the loop of parse_markdown takes, chosen as it takes them.        *)
(***************************************************************************)
\* The largest len(sys.argv) tried.
MaxArgc == 4

USAGE == "Usage: ./markdown2html.py README.md README.html"
MISSING == "Missing <input_file>"
\* What the interpreter prints for an exception nobody catches; it exits
\* with status 1.
TRACEBACK == "Traceback (most recent call last)"

\* A line of an output file that was there before the run.
OldLine == <<"o", "l", "d", NL>>

InitMain ==
    /\ lines = <<>>
    /\ html_lines = <<>>
    /\ in_ul = FALSE
    /\ in_ol = FALSE
    /\ paragraph_lines = <<>>
    /\ pc = "idle"
    /\ fmt_in = <<>>
    /\ fmt_out = <<>>
    /\ fmt_pc = "idle"
    /\ argc \in 1..MaxArgc
    /\ input_kind \in {"file", "directory", "missing"}
    /\ input_readable \in BOOLEAN
    /\ input_kind # "file" => input_readable = FALSE
    /\ output_ok \in BOOLEAN
    /\ out_file \in { [exists |-> FALSE, content |-> <<>>],
                      [exists |-> TRUE, content |-> <<OldLine>>] }
    /\ stderr = <<>>
    /\ exit_status = -1
    /\ input_read = FALSE
    /\ main_pc = "args"

\* The run ends with status and, if any, a message on the error stream.
Exit(status, message) ==
    /\ exit_status' = status
    /\ stderr' = stderr \o message
    /\ main_pc' = "exit"

\* if len(sys.argv) != 3: usage message, sys.exit(1).
MainUsage ==
    /\ main_pc = "args"
    /\ argc # 3
    /\ Exit(1, <<USAGE>>)
    /\ UNCHANGED <<block_vars, fmt_vars, argc, input_kind, input_readable, output_ok,
                   out_file, input_read>>

\* len(sys.argv) == 3: input_file and output_file are taken.
MainArgs ==
    /\ main_pc = "args"
    /\ argc = 3
    /\ main_pc' = "isfile"
    /\ UNCHANGED <<block_vars, fmt_vars, argc, input_kind, input_readable, output_ok,
                   out_file, stderr, exit_status, input_read>>

\* if not os.path.isfile(input_file): Missing message, sys.exit(1).
MainMissing ==
    /\ main_pc = "isfile"
    /\ input_kind # "file"
    /\ Exit(1, <<MISSING>>)
    /\ UNCHANGED <<block_vars, fmt_vars, argc, input_kind, input_readable, output_ok,
                   out_file, input_read>>

\* open() or readlines() of the input raises (no permission, bytes that are
\* not UTF-8): nobody catches it.
MainReadError ==
    /\ main_pc = "isfile"
    /\ input_kind = "file"
    /\ ~input_readable
    /\ Exit(1, <<TRACEBACK>>)
    /\ UNCHANGED <<block_vars, fmt_vars, argc, input_kind, input_readable, output_ok,
                   out_file, input_read>>

\* markdown_lines = f.readlines(); parse_markdown(markdown_lines) is called.
MainRead ==
    /\ main_pc = "isfile"
    /\ input_kind = "file"
    /\ input_readable
    /\ input_read' = TRUE
    /\ pc' = "loop"
    /\ main_pc' = "core"
    /\ UNCHANGED <<lines, html_lines, in_ul, in_ol, paragraph_lines, fmt_vars, argc,
                   input_kind, input_readable, output_ok, out_file, stderr, exit_status>>

\* parse_markdown raised: nobody catches it, the output file is not opened.
MainCoreError ==
    /\ main_pc = "core"
    /\ pc = "error"
    /\ Exit(1, <<TRACEBACK>>)
    /\ UNCHANGED <<block_vars, fmt_vars, argc, input_kind, input_readable, output_ok,
                   out_file, input_read>>

\* parse_markdown returned: the output file is opened for writing, each line
\* is written with a newline, sys.exit(0).
MainWrite ==
    /\ main_pc = "core"
    /\ pc = "done"
    /\ output_ok
    /\ out_file' = [exists |-> TRUE,
                    content |-> [i \in 1..Len(html_lines) |-> html_lines[i] \o <<NL>>]]
    /\ Exit(0, <<>>)
    /\ UNCHANGED <<block_vars, fmt_vars, argc, input_kind, input_readable, output_ok,
                   input_read>>

\* parse_markdown returned and open() of the output raises (a directory that
\* does not exist, no permission): nobody catches it.
MainWriteError ==
    /\ main_pc = "core"
    /\ pc = "done"
    /\ ~output_ok
    /\ Exit(1, <<TRACEBACK>>)
    /\ UNCHANGED <<block_vars, fmt_vars, argc, input_kind, input_readable, output_ok,
                   out_file, input_read>>

NextMain ==
    \/ MainUsage
    \/ MainArgs
    \/ MainMissing
    \/ MainReadError
    \/ MainRead
    \/ MainCoreError
    \/ MainWrite
    \/ MainWriteError
    \/ Next

SpecMain == InitMain /\ [][NextMain]_vars

(***************************************************************************)
(* Vocabulary of the properties: the input lines as the specification      *)
(* words them, and the output of one step.                                 *)
(***************************************************************************)
Last(s) == s[Len(s)]

Range(s) == { s[i] : i \in DOMAIN s }

\* raw is n '#' characters, one space and a text: the n, or 0.
HeadingLevelOf(raw) ==
    LET ns == { n \in 1..MaxHeadingLevel :
                    /\ Len(raw) >= n + 1
                    /\ \A k \in 1..n : raw[k] = "#"
                    /\ raw[n + 1] = " " }
    IN  IF ns = {} THEN 0 ELSE CHOOSE n \in ns : TRUE

\* The text of such a line.
HeadingTextOf(raw) == SubSeq(raw, HeadingLevelOf(raw) + 2, Len(raw))

IsBlankInput(raw) == \A k \in DOMAIN raw : IsSpace(raw[k])

\* An output line is a heading line, an item line.
IsHeadingOut(l) == StartsWith(l, <<"<", "h">>)
IsItemOut(l) == StartsWith(l, <<"<", "l", "i", ">">>)

\* Each opening line o of out has its closing line c later, with no o or c
\* in between, and each closing line has its opening line likewise.
Matched(out, o, c) ==
    /\ \A i \in DOMAIN out :
          out[i] = o =>
             \E j \in (i + 1)..Len(out) :
                /\ out[j] = c
                /\ \A k \in (i + 1)..(j - 1) : out[k] # o /\ out[k] # c
    /\ \A j \in DOMAIN out :
          out[j] = c =>
             \E i \in 1..(j - 1) :
                /\ out[i] = o
                /\ \A k \in (i + 1)..(j - 1) : out[k] # o /\ out[k] # c

\* The kinds of input line, read on the right-trimmed line as the block
\* classifier reads them.
IsHeadingInput(raw) == HeadingLevelOf(rstrip(raw)) # 0
IsUlItem(raw) == StartsWith(rstrip(raw), <<"-", " ">>)
IsOlItem(raw) == StartsWith(rstrip(raw), <<"*", " ">>)

\* A line whose leading run of '#' has length 7 or more, followed by a space.
IsLongHashInput(raw) ==
    LET r == HashRun(raw, 0)
    IN  r > MaxHeadingLevel /\ Len(raw) > r /\ raw[r + 1] = " "

\* One step of the loop: a line was taken and the loop goes on; the input
\* ended; the line taken; the output lines the step appended.
Consumed == pc = "loop" /\ pc' = "loop" /\ Len(lines') = Len(lines) + 1
Ended == pc = "loop" /\ pc' = "done"
EventLine == Last(lines')
New == SubSeq(html_lines', Len(html_lines) + 1, Len(html_lines'))

\* content stands inside a <p> block of out, as first or as later line.
InParagraph(out, content) ==
    \E i, j, m \in DOMAIN out :
        /\ i < j /\ j < m
        /\ out[i] = P_OPEN
        /\ out[m] = P_CLOSE
        /\ out[j] = content \/ out[j] = BR \o content
        /\ \A k \in (i + 1)..(m - 1) : out[k] # P_OPEN /\ out[k] # P_CLOSE

\* A paragraph-text line that does not start with '#'.
IsPlainText(raw) ==
    /\ ~IsBlankInput(raw)
    /\ ~StartsWith(raw, <<"#">>)
    /\ ~IsUlItem(raw)
    /\ ~IsOlItem(raw)

\* The markers and tags of the list type t, "ul" or "ol".
Marker(t) == IF t = "ul" THEN <<"-", " ">> ELSE <<"*", " ">>
OpenTag(t) == IF t = "ul" THEN UL_OPEN ELSE OL_OPEN
CloseTag(t) == IF t = "ul" THEN UL_CLOSE ELSE OL_CLOSE
Other(t) == IF t = "ul" THEN "ol" ELSE "ul"

\* raw starts with the marker of t: as given, or once right-trimmed.
StartsItem(t, raw, trimmed) ==
    StartsWith(IF trimmed THEN rstrip(raw) ELSE raw, Marker(t))

\* The <li> line of an item line: its content after the marker, trimmed and
\* formatted.
ItemOut(raw) == ItemLine(parse_formatting(strip(SliceFrom(rstrip(raw), 2))))

\* After the first k lines of ls a list of type t is open, by the rules of
\* the block classifier: an item of t opens it; a blank line, a heading and an
\* item of the other type close it; paragraph text leaves it as it is.
RECURSIVE ListOpenAfter(_, _, _, _)
ListOpenAfter(t, ls, k, trimmed) ==
    IF k = 0 THEN FALSE
    ELSE IF IsBlankInput(ls[k]) \/ IsHeadingInput(ls[k]) THEN FALSE
    ELSE IF StartsItem(t, ls[k], trimmed) THEN TRUE
    ELSE IF StartsItem(Other(t), ls[k], trimmed) THEN FALSE
    ELSE ListOpenAfter(t, ls, k - 1, trimmed)

\* The last n elements of s.
LastN(s, n) == SubSeq(s, Len(s) - n + 1, Len(s))

\* The runs of item lines that the input read so far ends with, each followed
\* by a blank line or the end of input and begun with no list of its type
\* open, have produced: the opening tag, the <li> lines in order, the
\* closing tag, as the last lines of the output.
RunsEmitted(trimmed) ==
    LET e == IF pc = "done" THEN Len(lines) ELSE Len(lines) - 1
    IN  \A t \in {"ul", "ol"} :
        \A b \in 1..e :
            (/\ pc = "done" \/ (pc = "loop" /\ lines # <<>> /\ IsBlankInput(Last(lines)))
             /\ \A k \in b..e : StartsItem(t, lines[k], trimmed)
             /\ b > 1 => ~StartsItem(t, lines[b - 1], trimmed)
             /\ ~ListOpenAfter(t, lines, b - 1, trimmed))
            => /\ Len(html_lines) >= e - b + 3
               /\ LastN(html_lines, e - b + 3) =
                     <<OpenTag(t)>> \o [k \in 1..(e - b + 1) |-> ItemOut(lines[b + k - 1])]
                                    \o <<CloseTag(t)>>

(***************************************************************************)
(* C1.  parse_markdown is total: whatever the input lines, lines made only *)
(* of '#' characters or of '#' characters followed by whitespace included, *)
(* the call returns and raises no error.                                   *)
(* Stated as: the call is never in the state of having raised.  The code   *)
(* violates it (IndexError at line[i] when the line is 1 to 6 '#').        *)
(***************************************************************************)
C1_NeverRaises == pc # "error"

(***************************************************************************)
(* C2.  For n in 1..6 and any text, the empty one included, the input line *)
(* of n '#', one space and text makes parse_markdown emit the one line     *)
(* <h{n}>FormattedText(text stripped)</h{n}>, and when it is emitted the   *)
(* paragraph buffer is empty and no list is open.                          *)
(* Stated on the state that follows the processing of such a line.  The    *)
(* code violates it for a text that is empty or all whitespace: the        *)
(* trimmed line is all '#' and line[i] raises.                             *)
(***************************************************************************)
C2_HeadingEmitted ==
    (pc # "done" /\ lines # <<>> /\ HeadingLevelOf(Last(lines)) # 0) =>
        /\ pc = "loop"
        /\ html_lines # <<>>
        /\ Last(html_lines) =
              HeadingLine(HeadingLevelOf(Last(lines)),
                          parse_formatting(strip(HeadingTextOf(Last(lines)))))
        /\ paragraph_lines = <<>>
        /\ ~in_ul
        /\ ~in_ol

(***************************************************************************)
(* C3.  When parse_markdown has returned, the structural tags of the       *)
(* output are balanced: every <ul>, <ol> and <p> line has its matching     *)
(* closing line later in the output (and every closing line its opening    *)
(* line), so that no list is left open, and the paragraph buffer is empty. *)
(***************************************************************************)
C3_Balanced ==
    pc = "done" =>
        /\ Matched(html_lines, UL_OPEN, UL_CLOSE)
        /\ Matched(html_lines, OL_OPEN, OL_CLOSE)
        /\ Matched(html_lines, P_OPEN, P_CLOSE)
        /\ paragraph_lines = <<>>

\* A returned call whose output holds a list of each type and a paragraph.
C3_Witness ==
    /\ pc = "done"
    /\ {UL_OPEN, OL_OPEN, P_OPEN} \subseteq Range(html_lines)

(***************************************************************************)
(* C4.  Whenever a list is open and the next event is a heading line, a    *)
(* blank line, an item line of the other list type or the end of input,    *)
(* the closing tag of the open list is emitted in that step, before the    *)
(* heading line, the other list's opening tag and the item line, and the   *)
(* list is not open afterwards.                                            *)
(* (A paragraph pending in the buffer is flushed first: its <p> block      *)
(* precedes the closing tag.)                                              *)
(***************************************************************************)
C4_ClosingEvent ==
    \/ Ended
    \/ /\ Consumed
       /\ \/ IsBlankInput(EventLine)
          \/ IsHeadingInput(EventLine)
          \/ in_ul /\ IsOlItem(EventLine)
          \/ in_ol /\ IsUlItem(EventLine)

C4_ListClosed ==
    [][ (pc = "loop" /\ (in_ul \/ in_ol) /\ C4_ClosingEvent) =>
          LET c == IF in_ul THEN UL_CLOSE ELSE OL_CLOSE
              o == IF in_ul THEN UL_OPEN ELSE OL_OPEN
          IN  /\ html_lines' = html_lines \o New
              /\ \E j \in DOMAIN New :
                    /\ New[j] = c
                    /\ \A k \in DOMAIN New :
                          (\/ IsHeadingOut(New[k])
                           \/ IsItemOut(New[k])
                           \/ New[k] \in {UL_OPEN, OL_OPEN}) => k > j
              /\ Consumed => (in_ul => ~in_ul') /\ (in_ol => ~in_ol')
              /\ Matched(html_lines', o, c) ]_vars

\* A list was closed by a heading: its closing tag, then the heading line.
C4_Witness ==
    \E i \in DOMAIN html_lines :
        /\ i < Len(html_lines)
        /\ html_lines[i] \in {UL_CLOSE, OL_CLOSE}
        /\ IsHeadingOut(html_lines[i + 1])

(***************************************************************************)
(* C5.  A line whose leading run of '#' has length 7 or more, followed by  *)
(* a space, produces no heading line: it is appended to the paragraph      *)
(* buffer, and once the call has returned it stands inside a <p> block of  *)
(* the output.                                                             *)
(***************************************************************************)
C5_LongHashRun ==
    [][ /\ (pc = "loop" /\ Len(lines') = Len(lines) + 1 /\ IsLongHashInput(EventLine)) =>
            /\ pc' = "loop"
            /\ \A k \in DOMAIN New : ~IsHeadingOut(New[k])
            /\ paragraph_lines' # <<>>
            /\ Last(paragraph_lines') = rstrip(EventLine)
        /\ Ended =>
            \A k \in DOMAIN lines' :
                IsLongHashInput(lines'[k]) =>
                    InParagraph(html_lines', parse_formatting(rstrip(lines'[k]))) ]_vars

\* A returned call one of whose input lines has such a run.
C5_Witness ==
    /\ pc = "done"
    /\ \E k \in DOMAIN lines : IsLongHashInput(lines[k])

(***************************************************************************)
(* C6.  Every run of k >= 1 consecutive input lines that all start with    *)
(* '- ' (resp. '* '), begun with no list of that type open and followed by *)
(* a blank line or the end of input, makes parse_markdown emit exactly one *)
(* <ul> (resp. <ol>) line, the k <li> lines in the order of the input, and *)
(* exactly one </ul> (resp. </ol>) line.                                   *)
(* As claimed, with the lines taken as given, it fails: the line '- ' with *)
(* nothing but whitespace after it is right-trimmed to '-' and is          *)
(* paragraph text.  It holds of the lines that start with the marker once  *)
(* right-trimmed.                                                          *)
(***************************************************************************)
C6_RunsOfGivenLines == RunsEmitted(FALSE)

C6_RunsOfTrimmedLines == RunsEmitted(TRUE)

\* Two unordered items and a blank line have been read.
C6_Witness ==
    /\ pc = "loop"
    /\ Len(lines) = 3
    /\ IsUlItem(lines[1])
    /\ IsUlItem(lines[2])
    /\ IsBlankInput(lines[3])

(***************************************************************************)
(* C7.  When an item line of one list type directly follows an item line   *)
(* of the other type, the output ends with: the first item's <li> line,    *)
(* the closing tag of the first list, the opening tag of the second list,  *)
(* the second item's <li> line.                                            *)
(***************************************************************************)
C7_SwitchOfList ==
    \A t \in {"ul", "ol"} :
        (/\ pc = "loop"
         /\ Len(lines) >= 2
         /\ StartsItem(t, lines[Len(lines) - 1], TRUE)
         /\ StartsItem(Other(t), Last(lines), TRUE))
        => /\ Len(html_lines) >= 4
           /\ LastN(html_lines, 4) =
                 <<ItemOut(lines[Len(lines) - 1]), CloseTag(t),
                   OpenTag(Other(t)), ItemOut(Last(lines))>>

\* An ordered item has just been read after an unordered one.
C7_Witness ==
    /\ pc = "loop"
    /\ Len(lines) >= 2
    /\ IsUlItem(lines[Len(lines) - 1])
    /\ IsOlItem(Last(lines))

(***************************************************************************)
(* C8.  flush_paragraph on a buffer of k >= 1 lines emits exactly k + 2    *)
(* lines: <p>, the formatted first line, <br/> followed by the formatted   *)
(* line for each later line in buffer order, </p>; it leaves none of the   *)
(* buffered lines in the buffer; on an empty buffer it emits nothing.      *)
(* Hence two paragraph-text lines in a row yield one block with one <br/>. *)
(* Stated on every step that calls flush_paragraph: the end of input and   *)
(* every line but plain paragraph text.                                    *)
(***************************************************************************)
C8_FlushingStep ==
    /\ pc = "loop"
    /\ \/ pc' = "done"
       \/ Len(lines') = Len(lines) + 1 /\ ~IsPlainText(EventLine)

C8_FlushParagraph ==
    [][ /\ C8_FlushingStep =>
            LET k == Len(paragraph_lines)
            IN  /\ html_lines' = html_lines \o New
                /\ k >= 1 =>
                      /\ Len(New) >= k + 2
                      /\ New[1] = P_OPEN
                      /\ New[2] = parse_formatting(paragraph_lines[1])
                      /\ \A i \in 2..k :
                            New[i + 1] = BR \o parse_formatting(paragraph_lines[i])
                      /\ New[k + 2] = P_CLOSE
                      /\ \A i \in (k + 3)..Len(New) : New[i] \notin {P_OPEN, P_CLOSE}
                /\ k = 0 => \A i \in DOMAIN New : New[i] \notin {P_OPEN, P_CLOSE}
                /\ \/ paragraph_lines' = <<>>
                   \/ /\ StartsWith(EventLine, <<"#">>)
                      /\ paragraph_lines' = <<rstrip(EventLine)>>
        /\ (Ended /\ Len(lines) = 2 /\ IsPlainText(lines[1]) /\ IsPlainText(lines[2])) =>
              html_lines' = <<P_OPEN, parse_formatting(rstrip(lines[1])),
                              BR \o parse_formatting(rstrip(lines[2])), P_CLOSE>> ]_vars

\* The output holds a block of two lines: <p>, a line, <br/>..., </p>.
C8_Witness ==
    \E i \in DOMAIN html_lines :
        /\ i + 3 <= Len(html_lines)
        /\ html_lines[i] = P_OPEN
        /\ StartsWith(html_lines[i + 2], BR)
        /\ html_lines[i + 3] = P_CLOSE

(***************************************************************************)
(* C9.  A blank line (empty or all whitespace) leaves the paragraph buffer *)
(* empty and no list open, and emits nothing but the <p> block of the      *)
(* buffered lines and the closing tag of the open list.  Hence two         *)
(* paragraph-text lines separated by a blank line come out as two <p>      *)
(* blocks.                                                                 *)
(***************************************************************************)
C9_BlankLine ==
    [][ /\ (pc = "loop" /\ Len(lines') = Len(lines) + 1 /\ IsBlankInput(EventLine)) =>
            LET k == Len(paragraph_lines)
                p == IF k > 0 THEN k + 2 ELSE 0
                c == (IF in_ul THEN <<UL_CLOSE>> ELSE <<>>)
                        \o (IF in_ol THEN <<OL_CLOSE>> ELSE <<>>)
            IN  /\ pc' = "loop"
                /\ paragraph_lines' = <<>>
                /\ ~in_ul'
                /\ ~in_ol'
                /\ html_lines' = html_lines \o New
                /\ Len(New) = p + Len(c)
                /\ k > 0 => /\ New[1] = P_OPEN
                            /\ New[p] = P_CLOSE
                            /\ \A i \in 1..k :
                                  \/ New[i + 1] = parse_formatting(paragraph_lines[i])
                                  \/ New[i + 1] = BR \o parse_formatting(paragraph_lines[i])
                /\ SubSeq(New, p + 1, Len(New)) = c
        /\ (/\ Ended
            /\ Len(lines) = 3
            /\ IsPlainText(lines[1])
            /\ IsBlankInput(lines[2])
            /\ IsPlainText(lines[3])) =>
              html_lines' = <<P_OPEN, parse_formatting(rstrip(lines[1])), P_CLOSE,
                              P_OPEN, parse_formatting(rstrip(lines[3])), P_CLOSE>> ]_vars

\* A returned call on a text line, a blank line, a text line.
C9_Witness ==
    /\ pc = "done"
    /\ Len(lines) = 3
    /\ IsPlainText(lines[1])
    /\ IsBlankInput(lines[2])
    /\ IsPlainText(lines[3])

(***************************************************************************)
(* C10.  parse_formatting applies bold, italic, character-strip and hash   *)
(* in this order, each rule on the output of the ones before: a            *)
(* `[[text]]` occurrence is replaced by the 32-character lowercase         *)
(* hexadecimal MD5 digest of text as bold, italic and strip have left it   *)
(* ('[[((c))abc]]' gives the digest of 'abc'), and the digest is not       *)
(* scanned again by the earlier rules (its 'c' characters stay).           *)
(* Stated on: the known digests of the examples; every text `[[t]]` with   *)
(* no bracket in t; every text `((t))` with t not empty and no parenthesis *)
(* or bracket in t; every text `(([[t]]))` with t free of delimiters.      *)
(***************************************************************************)
Digest_abc ==
    <<"9", "0", "0", "1", "5", "0", "9", "8", "3", "c", "d", "2", "4", "f", "b", "0",
      "d", "6", "9", "6", "3", "f", "7", "d", "2", "8", "e", "1", "7", "f", "7", "2">>

\* The digest of '<b>a</b>'.
Digest_bold_a ==
    <<"d", "0", "d", "0", "b", "3", "7", "1", "e", "0", "7", "f", "a", "a", "3", "5",
      "4", "7", "8", "d", "8", "d", "d", "e", "6", "7", "3", "a", "8", "c", "c", "5">>

Digest_a ==
    <<"0", "c", "c", "1", "7", "5", "b", "9", "c", "0", "f", "1", "b", "6", "a", "8",
      "3", "1", "c", "3", "9", "9", "e", "2", "6", "9", "7", "7", "2", "6", "6", "1">>

Text_hash_strip_abc == <<"[", "[", "(", "(", "c", ")", ")", "a", "b", "c", "]", "]">>

\* s is t between the delimiters of rule, and t holds none of the
\* characters of `without`.
Wraps(s, rule, without) ==
    /\ Len(s) >= 4
    /\ SubSeq(s, 1, 2) = Open(rule)
    /\ SubSeq(s, Len(s) - 1, Len(s)) = Close(rule)
    /\ \A k \in 3..(Len(s) - 2) : s[k] \notin without

Inner(s) == SubSeq(s, 3, Len(s) - 2)

IsHexDigest(s) == Len(s) = 32 /\ \A k \in DOMAIN s : s[k] \in Range(HexDigits)

C10_Order ==
    fmt_pc = "done" =>
        /\ fmt_in = Text_hash_strip_abc => fmt_out = Digest_abc
        /\ fmt_in = <<"[", "[", "a", "b", "c", "]", "]">> => fmt_out = Digest_abc
        /\ fmt_in = <<"[", "[", "*", "*", "a", "*", "*", "]", "]">> => fmt_out = Digest_bold_a
        /\ fmt_in = <<"(", "(", "[", "[", "a", "]", "]", ")", ")">> => fmt_out = Digest_a
        /\ fmt_in = <<"(", "(", "*", "*", "c", "*", "*", ")", ")">> =>
              fmt_out = <<"<", "b", ">", "<", "/", "b", ">">>
        /\ Wraps(fmt_in, "md5", {"[", "]"}) =>
              LET t == re_sub("strip", re_sub("italic", re_sub("bold", Inner(fmt_in), 1), 1), 1)
              IN  IF t = <<>> THEN fmt_out = <<"[", "[", "]", "]">>
                  ELSE fmt_out = hexdigest(t) /\ IsHexDigest(fmt_out)
        /\ (Wraps(fmt_in, "strip", {"(", ")", "[", "]"}) /\ Inner(fmt_in) # <<>>) =>
              fmt_out = remove_c(re_sub("italic", re_sub("bold", Inner(fmt_in), 1), 1))
        /\ (/\ Wraps(fmt_in, "strip", {"(", ")"})
            /\ Wraps(Inner(fmt_in), "md5", {"*", "_", "(", ")", "[", "]"})) =>
              LET t == remove_c(Inner(Inner(fmt_in)))
              IN  IF t = <<>> THEN fmt_out = <<"[", "[", "]", "]">>
                  ELSE fmt_out = hexdigest(t) /\ IsHexDigest(fmt_out)

\* The call on '[[((c))abc]]' has returned.
C10_Witness == fmt_pc = "done" /\ fmt_in = Text_hash_strip_abc

(***************************************************************************)
(* Vocabulary of the properties of one rule: an occurrence of its pattern  *)
(* starts at p and has its closing delimiter at q, with at least one       *)
(* character in between.                                                   *)
(***************************************************************************)
OccursAt(text, p, q, rule) ==
    HasAt(text, p, Open(rule)) /\ q >= p + 3 /\ HasAt(text, q, Close(rule))

\* The start of the leftmost occurrence, or 0; the nearest closing delimiter
\* of the occurrence that starts at p.
FirstStart(text, rule) ==
    LET ps == { p \in DOMAIN text : \E q \in DOMAIN text : OccursAt(text, p, q, rule) }
    IN  IF ps = {} THEN 0 ELSE CHOOSE p \in ps : \A r \in ps : p <= r

FirstEnd(text, p, rule) ==
    CHOOSE q \in DOMAIN text :
        /\ OccursAt(text, p, q, rule)
        /\ \A r \in DOMAIN text : OccursAt(text, p, r, rule) => q <= r

HasOccurrence(text, rule) == FirstStart(text, rule) # 0

\* text holds one of the characters chars.
Uses(text, chars) == \E k \in DOMAIN text : text[k] \in chars

\* text without the characters of drop, the others in their order.
Without(text, drop) ==
    LET Kept(ch) == ch \notin drop
    IN  SelectSeq(text, Kept)

\* The text before the leftmost occurrence, inside it, and after it.
Before(text, rule) == SubSeq(text, 1, FirstStart(text, rule) - 1)
Inside(text, rule) ==
    SubSeq(text, FirstStart(text, rule) + 2,
           FirstEnd(text, FirstStart(text, rule), rule) - 1)
After(text, rule) ==
    SubSeq(text, FirstEnd(text, FirstStart(text, rule), rule) + 2, Len(text))

\* out starts with head.
HasPrefix(out, head) == Len(out) >= Len(head) /\ SubSeq(out, 1, Len(head)) = head

(***************************************************************************)
(* C11.  In parse_formatting every occurrence of `((text))`, text being    *)
(* the shortest span of at least one character between '((' and a later    *)
(* '))', is replaced by text without its 'c' and 'C' characters, the other *)
(* characters kept in their order; the delimiters are removed and the      *)
(* characters outside the occurrence are unchanged.                        *)
(* Stated on the texts that hold no '*', '_' or '[', where only this rule  *)
(* rewrites: the result starts with the text before the leftmost           *)
(* occurrence and the occurrence's text without c/C, and goes on with the  *)
(* rest as it is when the rest holds no further occurrence; on the         *)
(* examples '((coffee))' and '((cab)) ((Cc))x'.                            *)
(***************************************************************************)
C11_StripRule ==
    fmt_pc = "done" =>
        /\ fmt_in = <<"(", "(", "c", "o", "f", "f", "e", "e", ")", ")">> =>
              fmt_out = <<"o", "f", "f", "e", "e">>
        /\ fmt_in = <<"(", "(", "c", "a", "b", ")", ")", " ", "(", "(", "C", "c", ")", ")", "x">> =>
              fmt_out = <<"a", "b", " ", "x">>
        /\ (~Uses(fmt_in, {"*", "_", "["}) /\ HasOccurrence(fmt_in, "strip")) =>
              LET head == Before(fmt_in, "strip") \o Without(Inside(fmt_in, "strip"), {"c", "C"})
              IN  /\ HasPrefix(fmt_out, head)
                  /\ ~HasOccurrence(After(fmt_in, "strip"), "strip") =>
                        fmt_out = head \o After(fmt_in, "strip")

\* The call on '((cab)) ((Cc))x' has returned: two occurrences, 'c' and 'C'
\* among other characters, and text outside the occurrences.
C11_Witness ==
    /\ fmt_pc = "done"
    /\ fmt_in = <<"(", "(", "c", "a", "b", ")", ")", " ", "(", "(", "C", "c", ")", ")", "x">>
    /\ HasOccurrence(fmt_in, "strip")
    /\ HasOccurrence(After(fmt_in, "strip"), "strip")

(***************************************************************************)
(* C12.  The bold rule, scanning left to right, replaces every occurrence  *)
(* of `**text**` by <b>text</b>, the span taken being the shortest one of  *)
(* at least one character between a '**' and a later '**'; likewise        *)
(* `__text__` becomes <em>text</em>; several occurrences on one line are   *)
(* all substituted.                                                        *)
(* Stated on the texts where only the rule in question rewrites (no '_',   *)
(* '(' or '[' for bold; no '*', '(' or '[' for italic): the result starts  *)
(* with the text before the leftmost occurrence and the wrapped text, and  *)
(* goes on with the rest as it is when the rest holds no further           *)
(* occurrence; on the examples with two occurrences.                       *)
(***************************************************************************)
Tagged(rule, text) ==
    IF rule = "bold"
    THEN <<"<", "b", ">">> \o text \o <<"<", "/", "b", ">">>
    ELSE <<"<", "e", "m", ">">> \o text \o <<"<", "/", "e", "m", ">">>

\* What the rule leaves of the input, when no other rule rewrites it.
WrapsFirst(rule) ==
    HasOccurrence(fmt_in, rule) =>
        LET head == Before(fmt_in, rule) \o Tagged(rule, Inside(fmt_in, rule))
        IN  /\ HasPrefix(fmt_out, head)
            /\ ~HasOccurrence(After(fmt_in, rule), rule) =>
                  fmt_out = head \o After(fmt_in, rule)

Text_two_bold == <<"*", "*", "a", "*", "*", " ", "*", "*", "b", "*", "*">>
Text_two_em == <<"_", "_", "a", "_", "_", " ", "_", "_", "b", "_", "_">>

C12_BoldItalic ==
    fmt_pc = "done" =>
        /\ fmt_in = <<"*", "*", "b", "o", "l", "d", "*", "*">> =>
              fmt_out = Tagged("bold", <<"b", "o", "l", "d">>)
        /\ fmt_in = Text_two_bold =>
              fmt_out = Tagged("bold", <<"a">>) \o <<" ">> \o Tagged("bold", <<"b">>)
        /\ fmt_in = Text_two_em =>
              fmt_out = Tagged("italic", <<"a">>) \o <<" ">> \o Tagged("italic", <<"b">>)
        /\ ~Uses(fmt_in, {"_", "(", "["}) => WrapsFirst("bold")
        /\ ~Uses(fmt_in, {"*", "(", "["}) => WrapsFirst("italic")

\* The call on '**a****' has returned: a second closing '**' follows the
\* nearest one.
C12_Witness ==
    /\ fmt_pc = "done"
    /\ fmt_in = <<"*", "*", "a", "*", "*", "*", "*">>
    /\ FirstEnd(fmt_in, 1, "bold") = 4
    /\ OccursAt(fmt_in, 1, 6, "bold")

(***************************************************************************)
(* C13.  Where a rule's opening delimiter ('**', '__', '((' or '[[') has   *)
(* no later closing delimiter, parse_formatting leaves that part of the    *)
(* text as literal text and raises nothing; a text that matches none of    *)
(* the four patterns is returned as it is.                                 *)
(* Stated as: the call returns for every text; with no occurrence of any   *)
(* rule the result is the input; when a rule has no opening delimiter      *)
(* followed by a closing one anywhere in the text, the text from one of    *)
(* its opening delimiters to the end, if it holds no closing delimiter of  *)
(* another rule, ends the result unchanged.                                *)
(***************************************************************************)
Rules == {"bold", "italic", "strip", "md5"}

\* No opening delimiter of rule is followed by a closing one.
NoPair(text, rule) ==
    \A p, q \in DOMAIN text :
        ~(HasAt(text, p, Open(rule)) /\ q >= p + 2 /\ HasAt(text, q, Close(rule)))

TailFrom(text, p) == SubSeq(text, p, Len(text))

\* The part of text from the unclosed opening delimiter at p on can be
\* reached by no other rule.
UnclosedAt(text, p, rule) ==
    /\ HasAt(text, p, Open(rule))
    /\ NoPair(text, rule)
    /\ \A other \in Rules \ {rule} :
          \A k \in p..Len(text) : ~HasAt(text, k, Close(other))

HasSuffix(out, tail) ==
    Len(out) >= Len(tail) /\ SubSeq(out, Len(out) - Len(tail) + 1, Len(out)) = tail

C13_Unmatched ==
    /\ fmt_pc \in {"call", "done"}
    /\ fmt_pc = "done" =>
          /\ (\A rule \in Rules : ~HasOccurrence(fmt_in, rule)) => fmt_out = fmt_in
          /\ \A rule \in Rules : \A p \in DOMAIN fmt_in :
                UnclosedAt(fmt_in, p, rule) => HasSuffix(fmt_out, TailFrom(fmt_in, p))

\* The call on '__a__**' has returned: the italic rule has rewritten the
\* head, the '**' without a closing delimiter is the tail.
C13_Witness ==
    /\ fmt_pc = "done"
    /\ fmt_in = <<"_", "_", "a", "_", "_", "*", "*">>
    /\ UnclosedAt(fmt_in, 6, "bold")
    /\ fmt_out # fmt_in

(***************************************************************************)
(* Vocabulary of the properties of main.                                   *)
(***************************************************************************)
\* The lines of the output file when out was written in full.
Written(out) == [i \in 1..Len(out) |-> out[i] \o <<NL>>]

\* The run has ended in full success.
FullSuccess ==
    /\ exit_status = 0
    /\ pc = "done"
    /\ out_file = [exists |-> TRUE, content |-> Written(html_lines)]

\* The run has ended before parse_markdown was called.
AbortedBeforeCore == exit_status = 1 /\ pc = "idle"

\* Nothing outside the program fails: the input can be read and the output
\* can be opened for writing.
BenignFiles == (input_kind = "file" => input_readable) /\ output_ok

(***************************************************************************)
(* C14.  Every run of main ends in exactly one of two outcomes: full       *)
(* success (all the lines parse_markdown returned are in the output file,  *)
(* exit status 0), or an abort before parse_markdown is called; in no run  *)
(* was parse_markdown called and the output not written in full.           *)
(* Stated on the runs where the input can be read and the output can be    *)
(* opened: it fails there, on an input file with the line '#', for which   *)
(* parse_markdown raises IndexError after it was called.                   *)
(***************************************************************************)
C14_AllOrNothing ==
    (main_pc = "exit" /\ BenignFiles) => (FullSuccess \/ AbortedBeforeCore)

(***************************************************************************)
(* C15.  With an argument count other than two positional arguments, or an *)
(* input path that is not an existing regular file, main writes a message  *)
(* to the error stream and exits with status 1 without reading the input,  *)
(* without calling parse_markdown and without creating or modifying the    *)
(* output file; with a valid input it writes every returned line followed  *)
(* by a newline and exits with status 0.                                   *)
(* Stated on the step that ends the run, for the runs where the input can  *)
(* be read and the output can be opened: the first half holds, the second  *)
(* fails on an input file with the line '#'.                               *)
(***************************************************************************)
C15_RunEnds == main_pc # "exit" /\ main_pc' = "exit"

C15_Rejected ==
    (argc # 3 \/ input_kind # "file") =>
        /\ stderr' \in {<<USAGE>>, <<MISSING>>}
        /\ exit_status' = 1
        /\ ~input_read'
        /\ pc' = "idle"
        /\ out_file' = out_file

C15_Accepted ==
    (argc = 3 /\ input_kind = "file") =>
        /\ out_file' = [exists |-> TRUE, content |-> Written(html_lines)]
        /\ exit_status' = 0

C15_ExitStatus ==
    [][(C15_RunEnds /\ BenignFiles) => (C15_Rejected /\ C15_Accepted)]_vars

(***************************************************************************)
(* C16.  In every reachable state of parse_markdown at most one of the two *)
(* list contexts is open: in_ul and in_ol are never both true, whatever    *)
(* the input lines.                                                        *)
(***************************************************************************)
C16_OneList == ~(in_ul /\ in_ol)

\* An item of the ordered list has just been read while the unordered list
\* was open.
C16_Witness ==
    /\ pc = "loop"
    /\ Len(lines) >= 2
    /\ IsUlItem(lines[Len(lines) - 1])
    /\ IsOlItem(Last(lines))
    /\ in_ol

(***************************************************************************)
(* C17.  In every reachable state of parse_markdown at most one of         *)
(* {paragraph buffer non-empty, unordered list open, ordered list open}    *)
(* holds: a paragraph-text line is only buffered when no list is open, so  *)
(* no <p> block is emitted between a list's opening tag and its closing    *)
(* tag.                                                                    *)
(* It fails on an item line followed by a text line: the text is buffered  *)
(* with the list open, and its <p> block comes out before the closing tag  *)
(* of the list.                                                            *)
(***************************************************************************)
\* No <p> line of out stands after an opening list tag without a closing
\* list tag in between.
NoParagraphInList(out) ==
    \A i, j \in DOMAIN out :
        (i < j /\ out[i] \in {UL_OPEN, OL_OPEN} /\ out[j] = P_OPEN) =>
            \E k \in (i + 1)..(j - 1) : out[k] \in {UL_CLOSE, OL_CLOSE}

C17_OneContext ==
    /\ Cardinality({ c \in {"p", "ul", "ol"} :
                        \/ c = "p" /\ paragraph_lines # <<>>
                        \/ c = "ul" /\ in_ul
                        \/ c = "ol" /\ in_ol }) <= 1
    /\ NoParagraphInList(html_lines)

(***************************************************************************)
(* C18.  A paragraph-text line (not blank, not a valid heading, not        *)
(* starting with '- ' or '* '; lines that start with '#' but fail the      *)
(* heading rule included) is only appended, right-trimmed, to the          *)
(* paragraph buffer: the step emits no output line, does not flush the     *)
(* lines already buffered and leaves the list flags as they are, so a      *)
(* maximal run of such lines ends up in one <p> block.                     *)
(* It fails on a text line followed by a line that starts with '#' and is  *)
(* no heading: the buffered text is flushed before the line is appended.   *)
(***************************************************************************)
\* raw is paragraph text by the rules of the classifier, read on the
\* right-trimmed line.
IsParagraphText(raw) ==
    /\ ~IsBlankInput(raw)
    /\ ~IsHeadingInput(raw)
    /\ ~IsUlItem(raw)
    /\ ~IsOlItem(raw)

C18_OnlyAppends ==
    [][(Consumed /\ IsParagraphText(EventLine)) =>
          /\ html_lines' = html_lines
          /\ paragraph_lines' = Append(paragraph_lines, rstrip(EventLine))
          /\ in_ul' = in_ul
          /\ in_ol' = in_ol]_vars

(***************************************************************************)
(* C19.  For every input on which parse_markdown returns, each non-blank   *)
(* input line contributes exactly one content line to the output (a        *)
(* heading line, an <li> line, or a paragraph line with or without the     *)
(* '<br/>' prefix), blank lines contribute none, and the content lines     *)
(* stand in the output in the order of their input lines.                  *)
(***************************************************************************)
StructuralTags == {P_OPEN, P_CLOSE, UL_OPEN, UL_CLOSE, OL_OPEN, OL_CLOSE}

\* The output lines that are content, in their order.
ContentLines(out) ==
    LET IsContent(l) == l \notin StructuralTags
    IN  SelectSeq(out, IsContent)

\* The input lines that are not blank, in their order.
NonBlankLines(ls) ==
    LET NotBlank(raw) == ~IsBlankInput(raw)
    IN  SelectSeq(ls, NotBlank)

\* The content lines a non-blank input line may become.
ContentsOf(raw) ==
    IF IsHeadingInput(raw)
    THEN { HeadingLine(HeadingLevelOf(rstrip(raw)),
                       parse_formatting(strip(HeadingTextOf(rstrip(raw))))) }
    ELSE IF IsUlItem(raw) \/ IsOlItem(raw)
    THEN { ItemOut(raw) }
    ELSE { parse_formatting(rstrip(raw)), BR \o parse_formatting(rstrip(raw)) }

C19_OneContentLineEach ==
    pc = "done" =>
        /\ Len(ContentLines(html_lines)) = Len(NonBlankLines(lines))
        /\ \A k \in 1..Len(NonBlankLines(lines)) :
              ContentLines(html_lines)[k] \in ContentsOf(NonBlankLines(lines)[k])

\* A returned call on a text line, a heading line and an item line, in this
\* order: the buffered text was emitted before the heading.
C19_Witness ==
    /\ pc = "done"
    /\ Len(lines) = 3
    /\ IsPlainText(lines[1])
    /\ IsHeadingInput(lines[2])
    /\ IsUlItem(lines[3])
    /\ Len(ContentLines(html_lines)) = 3

(***************************************************************************)
(* C20.  Every <li> line is emitted while exactly one list is open, the    *)
(* list of the item's marker ('- ' inside <ul>, '* ' inside <ol>); in the  *)
(* output each <li> line lies between an opening list tag of its type and  *)
(* the next closing tag of that type, with no opening or closing tag of    *)
(* the other type in between.                                              *)
(* Stated on every step: an <li> line is emitted only for an item line,    *)
(* as the last line of the step, with the flag of its type set and the     *)
(* other one reset, and the nearest list tag before it is the opening tag  *)
(* of its type; in the output so far the nearest list tag after an <li>    *)
(* line is the closing tag of the list it stands in, and that tag is there *)
(* once the call has returned.                                             *)
(***************************************************************************)
ListTags == {UL_OPEN, UL_CLOSE, OL_OPEN, OL_CLOSE}

\* The nearest list tag of out before position j; after position j.  An
\* empty line when there is none.
ListTagBefore(out, j) ==
    LET ks == { k \in 1..(j - 1) : out[k] \in ListTags }
    IN  IF ks = {} THEN <<>> ELSE out[CHOOSE k \in ks : \A m \in ks : m <= k]

ListTagAfter(out, j) ==
    LET ks == { k \in (j + 1)..Len(out) : out[k] \in ListTags }
    IN  IF ks = {} THEN <<>> ELSE out[CHOOSE k \in ks : \A m \in ks : k <= m]

\* Each <li> line of out stands in a list: after an opening tag, and before
\* the closing tag of the same type when a list tag follows; one does when
\* the output is complete.
ItemsEnclosed(out, complete) ==
    \A j \in DOMAIN out :
        IsItemOut(out[j]) =>
            \E t \in {"ul", "ol"} :
                /\ ListTagBefore(out, j) = OpenTag(t)
                /\ ListTagAfter(out, j) \in {CloseTag(t)} \cup (IF complete THEN {} ELSE {<<>>})

\* The step has emitted the <li> line of an item of type t inside its list.
ItemInItsList(t) ==
    /\ Last(html_lines') = ItemOut(EventLine)
    /\ ListTagBefore(html_lines', Len(html_lines')) = OpenTag(t)
    /\ (t = "ul") = in_ul'
    /\ (t = "ol") = in_ol'

C20_ItemInList ==
    [][/\ \A t \in {"ul", "ol"} :
            (Consumed /\ StartsItem(t, EventLine, TRUE)) => ItemInItsList(t)
       /\ (\E k \in DOMAIN New : IsItemOut(New[k])) =>
             /\ Consumed
             /\ IsUlItem(EventLine) \/ IsOlItem(EventLine)
             /\ \A k \in 1..(Len(New) - 1) : ~IsItemOut(New[k])
       /\ ItemsEnclosed(html_lines', pc' = "done")]_vars

\* An item of the unordered list has been emitted right after the ordered
\* list was closed, and the call has returned.
C20_Witness ==
    /\ pc = "done"
    /\ Len(lines) = 3
    /\ IsOlItem(lines[1])
    /\ IsUlItem(lines[2])
    /\ IsUlItem(lines[3])
    /\ ItemsEnclosed(html_lines, TRUE)

=============================================================================
